---- MODULE Spec2Model ----
(***************************************************************************)
(* Model of lib/plugins/aws/package/compile/functions.js                   *)
(* (AwsCompileFunctions): the 'package:compileFunctions' hook, which first *)
(* downloads the package artifacts one after another and then starts the   *)
(* compilation of every declared function through Promise.all.  Each       *)
(* compileFunction is an async function: it runs without interruption up   *)
(* to its next await, and the continuations of different functions run in  *)
(* whatever order their awaited promises settle.                           *)
(*                                                                         *)
(* The resource graph is compiledCloudFormationTemplate.Resources, the     *)
(* outputs are compiledCloudFormationTemplate.Outputs, and the shared      *)
(* execution-permission document is the Statement list of the policy of    *)
(* the IamRoleLambdaExecution resource.                                    *)
(***************************************************************************)
EXTENDS Integers, Sequences, FiniteSets, TLC

VARIABLES
  defs,        \* the declared function definitions (the service file), per function
  fn,          \* the live functionObject of every function (compileFunction writes to it)
  provider,    \* serverless.service.provider (defaults and flags)
  options,     \* CLI options ('enforce-hash-update')
  resources,   \* cfTemplate.Resources: logical id -> resource
  outputs,     \* cfTemplate.Outputs: logical id -> output
  statements,  \* IamRoleLambdaExecution ... PolicyDocument.Statement
  memo,        \* cache keys of the memoized ensureTargetExecutionPermission
  pc,          \* where each function's compileFunction stands
  frame,       \* the local variables of each compileFunction that live across awaits
  err,         \* the error each compileFunction has thrown: [code, name]
  phase,       \* where the hook stands: "download", "map", "settle", "end"
  idx,         \* the loop index of downloadPackageArtifacts / of allFunctions.map
  hookResult,  \* settlement of the hook's promise: [state, code, name]
  actor,       \* the function whose compileFunction took the last step (0: none)
  round,       \* 1: first deployment, 2: the deployment after Redeploy
  prevDigest,  \* version digest of each function in the first deployment
  changed      \* what Redeploy changed in the definitions: [fn, what]

vars == <<defs, fn, provider, options, resources, outputs, statements, memo, pc,
          frame, err, phase, idx, hookResult, actor, round, prevDigest, changed>>

----------------------------------------------------------------------------
(* Bounds of the model *)

\* number of declared functions
NumFns == 2
\* number of layers defined in the same template
NumLayers == 2
\* longest CORS list drawn for allowedOrigins / allowedHeaders / allowedMethods
MaxList == 2

(* Program constants *)

\* functionObject.memorySize || provider.memorySize || 1024
DefaultMemory == 1024
\* provider.timeout || 6
DefaultTimeout == 6
\* lambdaHashingVersion < 20201221 selects the legacy hashing
HashingVersionCurrent == 20201221
\* the deprecated '20200924' algorithm
HashingVersionLegacy == 20200924

Fns == 1 .. NumFns
LayerNames == 1 .. NumLayers

----------------------------------------------------------------------------
(* Objects: a JavaScript object is a function from its own keys to values;  *)
(* an absent key is outside the DOMAIN.                                     *)

Has(o, k) == k \in DOMAIN o

Put(o, k, v) == [x \in DOMAIN o \cup {k} |-> IF x = k THEN v ELSE o[x]]

Del(o, k) == [x \in DOMAIN o \ {k} |-> o[x]]

PutIf(cond, o, k, v) == IF cond THEN Put(o, k, v) ELSE o

EmptyObject == [x \in {} |-> 0]

RECURSIVE Contains(_, _)
Contains(s, e) == IF s = <<>> THEN FALSE
                  ELSE IF Head(s) = e THEN TRUE ELSE Contains(Tail(s), e)

\* _.uniq / the de-duplication of _.unionWith(.., _.isEqual): first occurrences, in order
RECURSIVE uniqFrom(_, _)
uniqFrom(acc, s) ==
  IF s = <<>> THEN acc
  ELSE uniqFrom(IF Contains(acc, Head(s)) THEN acc ELSE Append(acc, Head(s)), Tail(s))

uniq(s) == uniqFrom(<<>>, s)

\* _.unionWith(a, b, _.isEqual): the whole concatenation, de-duplicated
unionWith(a, b) == uniq(a \o b)

\* Array.prototype.sort on artifact path strings (insertion sort, ascending)
RECURSIVE insertSorted(_, _)
insertSorted(s, e) ==
  IF s = <<>> THEN <<e>>
  ELSE IF e <= Head(s) THEN <<e>> \o s ELSE <<Head(s)>> \o insertSorted(Tail(s), e)

RECURSIVE sortFrom(_, _)
sortFrom(acc, s) == IF s = <<>> THEN acc ELSE sortFrom(insertSorted(acc, Head(s)), Tail(s))

sort(s) == sortFrom(<<>>, s)

SeqsUpTo(S, n) == UNION {[1 .. k -> S] : k \in 0 .. n}

----------------------------------------------------------------------------
(* Logical ids (provider.naming): deterministic and collision-free; an id   *)
(* is the kind of resource, the function (or layer) it belongs to and, for  *)
(* a version, the version digest.                                           *)

Id(kind, f) == [kind |-> kind, fn |-> f, digest |-> <<>>]

getLambdaLogicalId(f) == Id("LambdaFunction", f)

getLambdaVersionLogicalId(f, digest) == [kind |-> "LambdaVersion", fn |-> f, digest |-> digest]

getLambdaVersionOutputLogicalId(f) == Id("LambdaFunctionQualifiedArn", f)

getLambdaProvisionedConcurrencyAliasLogicalId(f) == Id("ProvConcLambdaAlias", f)

getLambdaSnapStartAliasLogicalId(f) == Id("SnapStartLambdaAlias", f)

getLambdaFunctionUrlLogicalId(f) == Id("LambdaFunctionUrl", f)

getLambdaFunctionUrlOutputLogicalId(f) == Id("LambdaFunctionUrlOutput", f)

getLambdaFnUrlPermissionLogicalId(f) == Id("LambdaPermissionFnUrl", f)

getLambdaEventConfigLogicalId(f) == Id("LambdaEvConf", f)

getLogGroupLogicalId(f) == Id("LogGroup", f)

IamRoleLambdaExecution == Id("IamRoleLambdaExecution", 0)

LayerLogicalId(l) == Id("LambdaLayer", l)

\* provider.resolveLayerArtifactName(layer.name): the layer's artifact path
resolveLayerArtifactName(name) == name

\* getHashForFilePath(path): the content hash of the file at path
getHashForFilePath(content) == [sha256 |-> content]

\* resolveLambdaTarget(functionName, functionObject): the alias-qualified arn
\* when functionObject.targetAlias is set, the function's arn otherwise
resolveLambdaTarget(f, fo) == [fn |-> f, alias |-> fo.targetAlias.name]

\* provider.resolveImageUriAndSha(functionName): the uri names the image digest
resolveImageUriAndSha(f, fo) ==
  [functionImageUri |-> [repo |-> f, digest |-> fo.imageSha],
   functionImageSha |-> fo.imageSha]

\* provider.getCustomExecutionRole(functionObject)
getCustomExecutionRole(fo) == fo.role

----------------------------------------------------------------------------
(* Error codes of the ServerlessErrors compileFunction throws *)

NeitherError == "FUNCTION_NEITHER_HANDLER_NOR_IMAGE_DEFINED_ERROR"
BothError == "FUNCTION_BOTH_HANDLER_AND_IMAGE_DEFINED_ERROR"
MissingVpcError == "LAMBDA_FILE_SYSTEM_CONFIG_MISSING_VPC"
ConflictError == "FUNCTION_BOTH_PROVISIONED_CONCURRENCY_AND_SNAPSTART_ENABLED_ERROR"
UnsupportedTargetError == "UNSUPPORTED_DESTINATION_TARGET"
\* reading .Properties of an IamRoleLambdaExecution that is not in the template
TypeError == "TypeError"
\* the rejection of a failed artifact download
DownloadError == "DownloadError"

FatalErrors == {NeitherError, BothError, MissingVpcError, ConflictError, UnsupportedTargetError}

----------------------------------------------------------------------------
(* Templates and fixed values *)

defaultCors ==
  [allowedOrigins |-> <<"*">>,
   allowedHeaders |-> <<"Content-Type", "X-Amz-Date", "Authorization", "X-Api-Key",
                        "X-Amz-Security-Token", "X-Amzn-Trace-Id">>,
   allowedMethods |-> <<"*">>]

cfLambdaFunctionTemplate == [Type |-> "AWS::Lambda::Function", Properties |-> [Code |-> EmptyObject]]

cfLambdaVersionTemplate ==
  [Type |-> "AWS::Lambda::Version",
   DeletionPolicy |-> "Retain",
   Properties |-> [FunctionName |-> "FunctionName", CodeSha256 |-> "CodeSha256"]]

cfOutputLatestVersionTemplate == [Description |-> "Current Lambda function version", Value |-> "Value"]

\* a destination target that is not declared
NoTarget == [shape |-> "none", kind |-> "none", arn |-> "none", ref |-> 0]

\* a CORS field that is not declared
AbsentField == [kind |-> "absent", list |-> <<>>]

NoUrl == [enabled |-> FALSE, authorizer |-> "none", cors |-> FALSE,
          allowedOrigins |-> AbsentField, allowedHeaders |-> AbsentField,
          allowedMethods |-> AbsentField]

NoAlias == [name |-> "none", logicalId |-> Id("none", 0)]

\* a function definition with a handler and nothing else declared
PlainFunction(f) ==
  [name |-> f,
   handler |-> TRUE,
   image |-> FALSE,
   imageSha |-> 1,
   artifact |-> [remote |-> FALSE, content |-> 1],
   memorySize |-> 0,
   timeout |-> 0,
   reservedConcurrency |-> -1,
   tags |-> {},
   versionFunction |-> "unset",
   provisionedConcurrency |-> 0,
   snapStart |-> FALSE,
   layers |-> <<>>,
   onError |-> "none",
   kmsKeyArn |-> "none",
   tracing |-> "none",
   role |-> "none",
   vpc |-> "unset",
   fileSystemConfig |-> "none",
   url |-> NoUrl,
   destinations |-> [onSuccess |-> NoTarget, onFailure |-> NoTarget],
   maximumEventAge |-> 0,
   memory |-> 0,
   versionLogicalId |-> Id("none", 0),
   targetAlias |-> NoAlias]

\* the local variables of compileFunction before its first statement
EmptyFrame ==
  [functionImageUri |-> [repo |-> 0, digest |-> 0],
   functionImageSha |-> 0,
   shouldVersionFunction |-> FALSE,
   versionHash |-> <<>>,
   layerConfigurations |-> <<>>,
   layerArtifactPaths |-> <<>>,
   codeSha256 |-> [sha256 |-> [none |-> 0]]]

\* serverless.service.package.artifactDirectoryName: the directory of the
\* deployment bucket the artifacts of deployment r are uploaded to
artifactDirectoryNameOf(r) == [deployment |-> r]

artifactDirectoryName == artifactDirectoryNameOf(round)

\* a layer resource compiled into the template before the functions are
LayerResource(l, dir) ==
  [Type |-> "AWS::Lambda::LayerVersion",
   serverlessLayerName |-> l,
   Properties |-> [Content |-> [S3Bucket |-> "ServerlessDeploymentBucket",
                                S3Key |-> [artifactDirectoryName |-> dir,
                                           artifactFileName |-> resolveLayerArtifactName(l)]],
                   LayerName |-> l]]

----------------------------------------------------------------------------
(* compileFunction, cut at its awaits.  A context c carries what one       *)
(* uninterrupted run of a compileFunction reads and writes:                 *)
(*   res, out, stmts, memo : the template and the memoize cache             *)
(*   fo, fr                : the functionObject and the local variables     *)
(*   err, pc               : the error thrown and where the function stands *)

NoError == [code |-> "none", name |-> 0]

\* throw new ServerlessError(message, code): compileFunction's promise rejects;
\* name is the function the message names (0 when it names none)
throw(c, code, name) == [c EXCEPT !.err = [code |-> code, name |-> name], !.pc = "failed"]

hasDefaultRole(res) == IamRoleLambdaExecution \in DOMAIN res

\* lambdaHashingVersion < 20201221 && !this.options['enforce-hash-update']
\* (an undefined lambdaHashingVersion, 0 here, compares false)
legacyHashing ==
  /\ provider.lambdaHashingVersion # 0
  /\ provider.lambdaHashingVersion < HashingVersionCurrent
  /\ ~options.enforceHashUpdate

\* the chunk addFileToHash writes into the hash for the file with this content
addFileToHash(content) ==
  IF legacyHashing THEN [bytes |-> content]
  ELSE [filePathHash |-> getHashForFilePath(content)]

\* functionObject.memorySize || provider.memorySize || 1024
resolveMemory(fo) ==
  IF fo.memorySize # 0 THEN fo.memorySize
  ELSE IF provider.memorySize # 0 THEN provider.memorySize ELSE DefaultMemory

\* functionObject.timeout, else provider.timeout || 6
resolveTimeout(fo) ==
  IF fo.timeout # 0 THEN fo.timeout
  ELSE IF provider.timeout # 0 THEN provider.timeout ELSE DefaultTimeout

resolveKmsKeyArn(fo) == IF fo.kmsKeyArn # "none" THEN fo.kmsKeyArn ELSE provider.kmsKeyArn

resolveTracing(fo) == IF fo.tracing # "none" THEN fo.tracing ELSE provider.tracing

\* a string arn (and not a CloudFormation reference object)
IsStringArn(a) == a \notin {"none", "ref"}

vpcHasSecurityGroupIds(v) == v \in {"full", "securityGroupIdsOnly"}

vpcHasSubnetIds(v) == v \in {"full", "subnetIdsOnly"}

\* mutant: a vpc unset at function level still takes the provider's
resolveVpcConfigIgnoresNull(fo) ==
  /\ vpcHasSecurityGroupIds(fo.vpc) \/ vpcHasSecurityGroupIds(provider.vpc)
  /\ vpcHasSubnetIds(fo.vpc) \/ vpcHasSubnetIds(provider.vpc)

\* whether functionResource.Properties.VpcConfig survives lines 387-407
resolveVpcConfig(fo) ==
  /\ fo.vpc # "null"
  /\ vpcHasSecurityGroupIds(fo.vpc) \/ vpcHasSecurityGroupIds(provider.vpc)
  /\ vpcHasSubnetIds(fo.vpc) \/ vpcHasSubnetIds(provider.vpc)

\* mutant: the check for both handler and image is left out
validateHandlerImageNeitherOnly(fo) ==
  IF ~fo.handler /\ ~fo.image THEN NeitherError ELSE "none"

\* the first two checks of compileFunction
validateHandlerImage(fo) ==
  IF ~fo.handler /\ ~fo.image THEN NeitherError
  ELSE IF fo.handler /\ fo.image THEN BothError
  ELSE "none"

\* functionResource.Properties as built by lines 195-457
buildProperties(f, fo, fr) ==
  LET p0 == IF fo.handler
            THEN [Handler |-> "handler", Runtime |-> "runtime",
                  Code |-> [S3Bucket |-> "ServerlessDeploymentBucket",
                            S3Key |-> [artifactDirectoryName |-> artifactDirectoryName,
                                       artifactFileName |-> f]]]
            ELSE [Code |-> [ImageUri |-> fr.functionImageUri], PackageType |-> "Image"]
      p1 == Put(Put(Put(p0, "FunctionName", fo.name), "MemorySize", resolveMemory(fo)),
                "Timeout", resolveTimeout(fo))
      p2 == PutIf(fo.tags # {} \/ provider.tags # {}, p1, "Tags", provider.tags \cup fo.tags)
      p3 == PutIf(fo.onError # "none", p2, "DeadLetterConfig", [TargetArn |-> fo.onError])
      p4 == PutIf(resolveKmsKeyArn(fo) # "none", p3, "KmsKeyArn", resolveKmsKeyArn(fo))
      p5 == PutIf(resolveTracing(fo) # "none", p4, "TracingConfig", [Mode |-> resolveTracing(fo)])
      p6 == Put(p5, "Role", IF getCustomExecutionRole(fo) # "none"
                            THEN getCustomExecutionRole(fo) ELSE "IamRoleLambdaExecution")
      p7 == PutIf(resolveVpcConfig(fo), p6, "VpcConfig", "VpcConfig")
      p8 == PutIf(fo.fileSystemConfig # "none", p7, "FileSystemConfigs", <<fo.fileSystemConfig>>)
      p9 == PutIf(fo.reservedConcurrency # -1, p8, "ReservedConcurrentExecutions",
                  fo.reservedConcurrency)
  IN  IF fo.layers # <<>> THEN Put(p9, "Layers", fo.layers)
      ELSE PutIf(provider.layers # <<>>, p9, "Layers", provider.layers)

policyStatement(actions, arn) ==
  [Effect |-> "Allow", Action |-> [list |-> actions], Resource |-> [list |-> <<arn>>]]

\* lines 287-303: the dead-letter statement is pushed
onErrorStatements(fo, res, stmts) ==
  IF IsStringArn(fo.onError) /\ hasDefaultRole(res)
  THEN Append(stmts, policyStatement(<<"sns:Publish">>, fo.onError))
  ELSE stmts

\* mutant: the KMS statement is merged into the document as it was before
\* any function was compiled, and the result replaces the document
kmsStatementsFromStaleCopy(fo, res, stmts) ==
  IF IsStringArn(resolveKmsKeyArn(fo)) /\ hasDefaultRole(res)
  THEN unionWith(SubSeq(stmts, 1, 1), <<policyStatement(<<"kms:Decrypt">>, resolveKmsKeyArn(fo))>>)
  ELSE stmts

\* lines 311-339: the KMS statement is merged with _.unionWith
kmsStatements(fo, res, stmts) ==
  IF IsStringArn(resolveKmsKeyArn(fo)) /\ hasDefaultRole(res)
  THEN unionWith(stmts, <<policyStatement(<<"kms:Decrypt">>, resolveKmsKeyArn(fo))>>)
  ELSE stmts

\* lines 341-372: the tracing statement is merged with _.unionWith
tracingStatements(fo, res, stmts) ==
  IF resolveTracing(fo) # "none" /\ hasDefaultRole(res)
  THEN unionWith(stmts, <<policyStatement(<<"xray:PutTraceSegments", "xray:PutTelemetryRecords">>, "*")>>)
  ELSE stmts

\* lines 421-432: the filesystem statement is pushed
fileSystemStatements(fo, res, stmts) ==
  IF hasDefaultRole(res)
  THEN Append(stmts, policyStatement(<<"elasticfilesystem:ClientMount",
                                       "elasticfilesystem:ClientWrite">>, fo.fileSystemConfig))
  ELSE stmts

\* mutant: functionObject.versionFunction || provider.versionFunctions
shouldVersionFunctionEither(fo) ==
  fo.versionFunction = "true" \/ provider.versionFunctions

\* lines 466-469
shouldVersionFunction(fo) ==
  IF fo.versionFunction # "unset" THEN fo.versionFunction = "true"
  ELSE provider.versionFunctions

\* mutant: provisioned concurrency and SnapStart do not open the version block
versionConditionFlagOnly(fo) == shouldVersionFunction(fo)

\* lines 471-475: whether a version is published
versionCondition(fo) ==
  shouldVersionFunction(fo) \/ fo.provisionedConcurrency # 0 \/ fo.snapStart

RECURSIVE extractLayerConfigurationsFromFunction(_, _)
\* layers: functionProperties.Layers (0 stands for a layer arn, l for {Ref: layer l})
extractLayerConfigurationsFromFunction(layers, res) ==
  IF layers = <<>> THEN <<>>
  ELSE LET l == Head(layers)
           rest == extractLayerConfigurationsFromFunction(Tail(layers), res)
       IN  IF l # 0 /\ LayerLogicalId(l) \in DOMAIN res
           THEN <<[name |-> res[LayerLogicalId(l)].serverlessLayerName,
                   ref |-> l,
                   properties |-> res[LayerLogicalId(l)].Properties]>> \o rest
           ELSE rest

----------------------------------------------------------------------------
(* compileFunctionUrl *)

\* mutant: a declared list is merged into the default
overrideCorsFieldUnion(cors, key, field) ==
  IF field.kind = "list" THEN Put(cors, key, uniq(cors[key] \o field.list))
  ELSE IF field.kind = "null" THEN Del(cors, key)
  ELSE cors

\* lines 655-671, for one of allowedOrigins, allowedHeaders, allowedMethods
overrideCorsField(cors, key, field) ==
  IF field.kind = "list" THEN Put(cors, key, uniq(field.list))
  ELSE IF field.kind = "null" THEN Del(cors, key)
  ELSE cors

\* lines 652-680
resolveCors(url) ==
  overrideCorsField(
    overrideCorsField(
      overrideCorsField(defaultCors, "allowedOrigins", url.allowedOrigins),
      "allowedHeaders", url.allowedHeaders),
    "allowedMethods", url.allowedMethods)

\* lines 691-700: a field without a value is left out of the resource
compileCors(cors) ==
  LET c1 == PutIf(Has(cors, "allowedHeaders"), EmptyObject, "AllowHeaders",
                  IF Has(cors, "allowedHeaders") THEN cors.allowedHeaders ELSE <<>>)
      c2 == PutIf(Has(cors, "allowedMethods"), c1, "AllowMethods",
                  IF Has(cors, "allowedMethods") THEN cors.allowedMethods ELSE <<>>)
  IN  PutIf(Has(cors, "allowedOrigins"), c2, "AllowOrigins",
            IF Has(cors, "allowedOrigins") THEN cors.allowedOrigins ELSE <<>>)

\* mutant: the DependsOn is set whether or not an alias was created
dependsOnTargetAliasAlways(fo, resource) ==
  [Type |-> resource.Type, Properties |-> resource.Properties,
   DependsOn |-> fo.targetAlias.logicalId]

\* _.get(functionObject.targetAlias, 'logicalId') as the DependsOn of a resource
dependsOnTargetAlias(fo, resource) ==
  PutIf(fo.targetAlias # NoAlias, resource, "DependsOn", fo.targetAlias.logicalId)

compileFunctionUrl(f, c) ==
  LET fo == c.fo
      url == fo.url
      auth == IF url.authorizer = "aws_iam" THEN "AWS_IAM" ELSE "NONE"
      props == PutIf(url.cors,
                     [AuthType |-> auth, TargetFunctionArn |-> resolveLambdaTarget(f, fo)],
                     "Cors", compileCors(resolveCors(url)))
      urlResource == dependsOnTargetAlias(fo, [Type |-> "AWS::Lambda::Url", Properties |-> props])
      logicalId == getLambdaFunctionUrlLogicalId(f)
      permission ==
        dependsOnTargetAlias(fo,
          [Type |-> "AWS::Lambda::Permission",
           Properties |-> [FunctionName |-> resolveLambdaTarget(f, fo),
                           Action |-> "lambda:InvokeFunctionUrl",
                           Principal |-> "*",
                           FunctionUrlAuthType |-> auth]])
      res1 == Put(c.res, logicalId, urlResource)
  IN  IF ~url.enabled THEN c
      ELSE [c EXCEPT
              !.res = IF auth = "NONE"
                      THEN Put(res1, getLambdaFnUrlPermissionLogicalId(f), permission)
                      ELSE res1,
              !.out = Put(c.out, getLambdaFunctionUrlOutputLogicalId(f),
                          [Description |-> "Lambda Function URL",
                           Value |-> [GetAtt |-> logicalId]])]

----------------------------------------------------------------------------
(* compileFunctionEventInvokeConfig and ensureTargetExecutionPermission *)

\* the key _.memoize caches under: its first argument, a string by value and
\* an object by identity
memoizeKey(target) ==
  IF target.shape = "object" THEN [object |-> target.ref] ELSE [string |-> target.arn]

\* mutant: a target that is not recognised is taken for a function
destinationActionDefaultsToInvoke(target) ==
  IF target.kind \in {"sqs", ":sqs:"} THEN "sqs:SendMessage"
  ELSE IF target.kind \in {"sns", ":sns:"} THEN "sns:Publish"
  ELSE IF target.kind \in {"eventBus", ":event-bus/"} THEN "events:PutEvents"
  ELSE "lambda:InvokeFunction"

\* lines 803-827; "unsupported" stands for the throw
destinationAction(target) ==
  IF target.shape = "object" /\ target.kind = "function" THEN "lambda:InvokeFunction"
  ELSE IF target.shape = "object" /\ target.kind = "sqs" THEN "sqs:SendMessage"
  ELSE IF target.shape = "object" /\ target.kind = "sns" THEN "sns:Publish"
  ELSE IF target.shape = "object" /\ target.kind = "eventBus" THEN "events:PutEvents"
  ELSE IF target.shape = "string" /\ target.kind \in {"name", ":function:"}
       THEN "lambda:InvokeFunction"
  ELSE IF target.shape = "string" /\ target.kind = ":sqs:" THEN "sqs:SendMessage"
  ELSE IF target.shape = "string" /\ target.kind = ":sns:" THEN "sns:Publish"
  ELSE IF target.shape = "string" /\ target.kind = ":event-bus/" THEN "events:PutEvents"
  ELSE "unsupported"

\* lines 829-843
destinationResourceArn(target) ==
  IF target.shape = "string" /\ target.kind = "name" THEN [FnSub |-> target.arn]
  ELSE [arn |-> target.arn]

\* the body of ensureTargetExecutionPermission, lines 798-845
ensureTargetExecutionPermissionBody(c, target) ==
  IF ~hasDefaultRole(c.res) THEN throw(c, TypeError, 0)
  ELSE IF destinationAction(target) = "unsupported" THEN throw(c, UnsupportedTargetError, 0)
  ELSE [c EXCEPT !.stmts = Append(c.stmts, [Effect |-> "Allow",
                                            Action |-> [scalar |-> destinationAction(target)],
                                            Resource |-> destinationResourceArn(target)])]

\* mutant: the method is not memoized
ensureTargetExecutionPermissionUnmemoized(c, target) ==
  ensureTargetExecutionPermissionBody(c, target)

\* the memoized method (line 43): a cached key returns without running the
\* body; a call that throws caches nothing
ensureTargetExecutionPermission(c, target) ==
  IF memoizeKey(target) \in c.memo THEN c
  ELSE LET c1 == ensureTargetExecutionPermissionBody(c, target)
       IN  IF c1.err # NoError THEN c1
           ELSE [c1 EXCEPT !.memo = c.memo \cup {memoizeKey(target)}]

\* getDestinationsArn
getDestinationsArn(target) ==
  IF target.shape = "string" /\ target.kind = "name" THEN [resolveFunctionArn |-> target.arn]
  ELSE [arn |-> target.arn]

compileFunctionEventInvokeConfig(f, c) ==
  LET fo == c.fo
      onSuccess == fo.destinations.onSuccess
      onFailure == fo.destinations.onFailure
      hasDestinations == onSuccess # NoTarget \/ onFailure # NoTarget
      hasAccessPoliciesHandledExternally == getCustomExecutionRole(fo) # "none"
      c1 == IF onSuccess # NoTarget /\ ~hasAccessPoliciesHandledExternally
            THEN ensureTargetExecutionPermission(c, onSuccess) ELSE c
      c2 == IF c1.err # NoError THEN c1
            ELSE IF onFailure # NoTarget /\ ~hasAccessPoliciesHandledExternally
            THEN ensureTargetExecutionPermission(c1, onFailure) ELSE c1
      d1 == PutIf(onSuccess # NoTarget, EmptyObject, "OnSuccess",
                  [Destination |-> getDestinationsArn(onSuccess)])
      destinationConfig == PutIf(onFailure # NoTarget, d1, "OnFailure",
                                 [Destination |-> getDestinationsArn(onFailure)])
      resource ==
        dependsOnTargetAlias(fo,
          [Type |-> "AWS::Lambda::EventInvokeConfig",
           Properties |-> PutIf(fo.maximumEventAge # 0,
                                [FunctionName |-> [Ref |-> getLambdaLogicalId(f)],
                                 DestinationConfig |-> destinationConfig,
                                 Qualifier |-> IF fo.targetAlias # NoAlias
                                               THEN fo.targetAlias.name ELSE "$LATEST"],
                                "MaximumEventAgeInSeconds", fo.maximumEventAge)])
  IN  IF ~hasDestinations /\ fo.maximumEventAge = 0 THEN c
      ELSE IF c2.err # NoError THEN c2
      ELSE [c2 EXCEPT !.res = Put(c2.res, getLambdaEventConfigLogicalId(f), resource)]

\* lines 635-636, and the return of compileFunction
compileFunctionTail(f, c) ==
  LET c1 == compileFunctionEventInvokeConfig(f, compileFunctionUrl(f, c))
  IN  IF c1.err # NoError THEN c1 ELSE [c1 EXCEPT !.pc = "done"]

----------------------------------------------------------------------------
(* The version block of compileFunction, lines 471-633 *)

\* mutant: the S3Key of the layers stays in what is hashed
stripS3KeyKeeps(layerConfigurations) == layerConfigurations

RECURSIVE stripS3Key(_)
\* lines 513-515: delete layerConfig.properties.Content.S3Key
stripS3Key(layerConfigurations) ==
  IF layerConfigurations = <<>> THEN <<>>
  ELSE LET lc == Head(layerConfigurations)
       IN  <<[lc EXCEPT !.properties =
                [lc.properties EXCEPT !.Content = Del(lc.properties.Content, "S3Key")]]>>
           \o stripS3Key(Tail(layerConfigurations))

\* lines 527-533: the legacy layout, layer name -> properties
sortedLayerConfigurations(layerConfigurations) ==
  [name \in {layerConfigurations[i].name : i \in DOMAIN layerConfigurations} |->
     LET i == CHOOSE j \in DOMAIN layerConfigurations :
                /\ layerConfigurations[j].name = name
                /\ \A k \in DOMAIN layerConfigurations :
                     layerConfigurations[k].name = name => k <= j
     IN  layerConfigurations[i].properties]

\* mutant: the tags stay in what is hashed
canonicalPropertiesKeepsTags(fo, properties) ==
  LET p1 == IF ~fo.image THEN Del(properties, "Code") ELSE properties
  IN  Del(p1, "ReservedConcurrentExecutions")

\* lines 517-522: the clone of functionResource.Properties that is hashed
canonicalProperties(fo, properties) ==
  LET p1 == IF ~fo.image THEN Del(properties, "Code") ELSE properties
  IN  Del(Del(p1, "ReservedConcurrentExecutions"), "Tags")

\* lines 524-543: the chunk written for the configuration
configurationChunk(fo, properties, layerConfigurations) ==
  IF legacyHashing
  THEN [sortedFunctionProperties |->
          Put(canonicalProperties(fo, properties), "layerConfigurations",
              sortedLayerConfigurations(stripS3Key(layerConfigurations)))]
  ELSE [deepSortedFunctionProperties |->
          Put(canonicalProperties(fo, properties), "layerConfigurations",
              stripS3Key(layerConfigurations))]

\* mutant: the DeletionPolicy is deleted whatever shouldVersionFunction is
provisionedConcurrencyAliasAlwaysDeletes(f, c, versionLogicalId) ==
  LET aliasLogicalId == getLambdaProvisionedConcurrencyAliasLogicalId(f)
  IN  [c EXCEPT
         !.fo.targetAlias = [name |-> "provisioned", logicalId |-> aliasLogicalId],
         !.res = Put([c.res EXCEPT ![versionLogicalId] = Del(@, "DeletionPolicy")],
                     aliasLogicalId,
                     [Type |-> "AWS::Lambda::Alias",
                      Properties |-> [FunctionName |-> [Ref |-> getLambdaLogicalId(f)],
                                      FunctionVersion |-> [GetAtt |-> versionLogicalId],
                                      Name |-> "provisioned",
                                      ProvisionedConcurrencyConfig |->
                                        c.fo.provisionedConcurrency],
                      DependsOn |-> getLambdaLogicalId(f)])]

\* lines 584-607
provisionedConcurrencyAlias(f, c, versionLogicalId) ==
  LET aliasLogicalId == getLambdaProvisionedConcurrencyAliasLogicalId(f)
      res1 == IF ~c.fr.shouldVersionFunction
              THEN [c.res EXCEPT ![versionLogicalId] = Del(@, "DeletionPolicy")]
              ELSE c.res
  IN  [c EXCEPT
         !.fo.targetAlias = [name |-> "provisioned", logicalId |-> aliasLogicalId],
         !.res = Put(res1, aliasLogicalId,
                     [Type |-> "AWS::Lambda::Alias",
                      Properties |-> [FunctionName |-> [Ref |-> getLambdaLogicalId(f)],
                                      FunctionVersion |-> [GetAtt |-> versionLogicalId],
                                      Name |-> "provisioned",
                                      ProvisionedConcurrencyConfig |->
                                        c.fo.provisionedConcurrency],
                      DependsOn |-> getLambdaLogicalId(f)])]

\* lines 609-632
snapStartAlias(f, c, versionLogicalId) ==
  LET aliasLogicalId == getLambdaSnapStartAliasLogicalId(f)
      functionLogicalId == getLambdaLogicalId(f)
      res1 == IF ~c.fr.shouldVersionFunction
              THEN [c.res EXCEPT ![versionLogicalId] = Del(@, "DeletionPolicy")]
              ELSE c.res
      res2 == [res1 EXCEPT ![functionLogicalId].Properties =
                 Put(@, "SnapStart", [ApplyOn |-> "PublishedVersions"])]
  IN  [c EXCEPT
         !.fo.targetAlias = [name |-> "snapstart", logicalId |-> aliasLogicalId],
         !.res = Put(res2, aliasLogicalId,
                     [Type |-> "AWS::Lambda::Alias",
                      Properties |-> [FunctionName |-> [Ref |-> functionLogicalId],
                                      FunctionVersion |-> [GetAtt |-> versionLogicalId],
                                      Name |-> "snapstart"],
                      DependsOn |-> functionLogicalId])]

\* lines 512-636: from the end of the layer loop to the end of compileFunction
publishVersion(f, c) ==
  LET fo == c.fo
      functionLogicalId == getLambdaLogicalId(f)
      versionDigest ==
        Append(c.fr.versionHash,
               configurationChunk(fo, c.res[functionLogicalId].Properties,
                                  c.fr.layerConfigurations))
      versionLogicalId == getLambdaVersionLogicalId(f, versionDigest)
      versionResource ==
        [cfLambdaVersionTemplate EXCEPT
           !.Properties = [FunctionName |-> [Ref |-> functionLogicalId],
                           CodeSha256 |-> c.fr.codeSha256]]
      c1 == [c EXCEPT
               !.fr.versionHash = versionDigest,
               !.fo.versionLogicalId = versionLogicalId,
               !.res = Put(c.res, versionLogicalId, versionResource),
               !.out = Put(c.out, getLambdaVersionOutputLogicalId(f),
                           [cfOutputLatestVersionTemplate EXCEPT
                              !.Value = [Ref |-> versionLogicalId]])]
      c2 == IF fo.provisionedConcurrency # 0
            THEN provisionedConcurrencyAlias(f, c1, versionLogicalId) ELSE c1
      c3 == IF fo.snapStart THEN snapStartAlias(f, c2, versionLogicalId) ELSE c2
  IN  IF fo.provisionedConcurrency # 0 /\ fo.snapStart THEN throw(c1, ConflictError, f)
      ELSE compileFunctionTail(f, c3)

\* lines 508-510: the next layer artifact is awaited, or the loop is over
layerLoop(f, c) ==
  IF c.fr.layerArtifactPaths # <<>> THEN [c EXCEPT !.pc = "addLayerToHash"]
  ELSE publishVersion(f, c)

\* lines 501-508: the layer artifact paths, sorted
layerLoopStart(f, c) ==
  layerLoop(f, [c EXCEPT !.fr.layerArtifactPaths =
                  sort([i \in DOMAIN c.fr.layerConfigurations |->
                          resolveLayerArtifactName(c.fr.layerConfigurations[i].name)])])

\* lines 481-500: up to the first await of the version block
versionStart(f, c) ==
  LET functionLogicalId == getLambdaLogicalId(f)
      res1 == IF options.enforceHashUpdate
              THEN [c.res EXCEPT ![functionLogicalId].Properties =
                      Put(@, "Description", "temporary-description-to-enforce-hash-update")]
              ELSE c.res
      properties == res1[functionLogicalId].Properties
      c1 == [c EXCEPT
               !.res = res1,
               !.fr.versionHash = <<>>,
               !.fr.layerConfigurations =
                  extractLayerConfigurationsFromFunction(
                    IF Has(properties, "Layers") THEN properties.Layers ELSE <<>>, res1)]
  IN  IF c.fr.functionImageSha # 0
      THEN layerLoopStart(f, [c1 EXCEPT !.fr.codeSha256 = [sha256 |-> [image |-> c.fr.functionImageSha]]])
      ELSE [c1 EXCEPT !.pc = "getHashForFilePath"]

\* lines 195-475: from the settings to the decision to publish a version
compileFunctionBody(f, c) ==
  LET fo == c.fo
      stmts1 == tracingStatements(fo, c.res,
                  kmsStatements(fo, c.res, onErrorStatements(fo, c.res, c.stmts)))
      c1 == [c EXCEPT !.fo.memory = resolveMemory(fo),
                      !.fo.timeout = resolveTimeout(fo),
                      !.stmts = stmts1]
      functionResource ==
        [Type |-> cfLambdaFunctionTemplate.Type,
         Properties |-> buildProperties(f, fo, c.fr),
         DependsOn |-> <<getLogGroupLogicalId(f)>>]
      c2 == [c1 EXCEPT
               !.stmts = IF fo.fileSystemConfig # "none"
                         THEN fileSystemStatements(fo, c.res, stmts1) ELSE stmts1,
               !.res = Put(c.res, getLambdaLogicalId(f), functionResource),
               !.fr.shouldVersionFunction = shouldVersionFunction(fo)]
  IN  IF fo.fileSystemConfig # "none" /\ ~resolveVpcConfig(fo) THEN throw(c1, MissingVpcError, f)
      ELSE IF versionCondition(fo) THEN versionStart(f, c2)
      ELSE compileFunctionTail(f, c2)

\* mutant: the image resolution is awaited for every function
compileFunctionStartAwaitsFirst(f, c) ==
  IF validateHandlerImage(c.fo) # "none" THEN throw(c, validateHandlerImage(c.fo), f)
  ELSE [c EXCEPT !.pc = "resolveImageUriAndSha"]

\* lines 148-174: the checks, and the await of the image resolution
compileFunctionStart(f, c) ==
  IF validateHandlerImage(c.fo) # "none" THEN throw(c, validateHandlerImage(c.fo), f)
  ELSE IF c.fo.image THEN [c EXCEPT !.pc = "resolveImageUriAndSha"]
  ELSE compileFunctionBody(f, c)

\* line 172 resumes
resumeImage(f, c) ==
  compileFunctionBody(f,
    [c EXCEPT !.fr.functionImageUri = resolveImageUriAndSha(f, c.fo).functionImageUri,
              !.fr.functionImageSha = resolveImageUriAndSha(f, c.fo).functionImageSha])

\* line 496 resumes: CodeSha256 is set and addFileToHash is called and awaited
resumeGetHashForFilePath(f, c) ==
  [c EXCEPT !.fr.codeSha256 = getHashForFilePath([artifact |-> c.fo.artifact.content]),
            !.pc = "addFileToHash"]

\* line 499 resumes: the artifact is in the hash; on to the layers
resumeAddFileToHash(f, c) ==
  layerLoopStart(f, [c EXCEPT !.fr.versionHash =
                       Append(@, addFileToHash([artifact |-> c.fo.artifact.content]))])

\* line 509 resumes: one layer artifact is in the hash
resumeAddLayerToHash(f, c) ==
  layerLoop(f, [c EXCEPT !.fr.versionHash =
                  Append(@, addFileToHash([layer |-> Head(c.fr.layerArtifactPaths)])),
                !.fr.layerArtifactPaths = Tail(@)])

----------------------------------------------------------------------------
(* The state machine *)

\* the template the other compile steps have produced before this hook runs
InitialResources(dir) ==
  [id \in {IamRoleLambdaExecution}
          \cup {getLogGroupLogicalId(f) : f \in Fns}
          \cup {LayerLogicalId(l) : l \in LayerNames} |->
     IF id.kind = "LambdaLayer" THEN LayerResource(id.fn, dir)
     ELSE IF id.kind = "LogGroup" THEN [Type |-> "AWS::Logs::LogGroup"]
     ELSE [Type |-> "AWS::IAM::Role"]]

\* the statements of the default role's policy before this hook runs
InitialStatements ==
  <<policyStatement(<<"logs:CreateLogStream", "logs:CreateLogGroup", "logs:TagResource">>,
                    "log-group")>>

Pending == [state |-> "pending", code |-> "none", name |-> 0]

\* lines 44-49 of the constructor: an unset provider.versionFunctions becomes true
constructorVersionFunctions(declared) ==
  IF declared = "unset" THEN TRUE ELSE declared = "true"

\* a provider section with nothing declared
PlainProvider ==
  [versionFunctions |-> constructorVersionFunctions("unset"),
   memorySize |-> 0,
   timeout |-> 0,
   tags |-> {},
   kmsKeyArn |-> "none",
   tracing |-> "none",
   vpc |-> "unset",
   layers |-> <<>>,
   lambdaHashingVersion |-> 0]

\* the state after construction, for the given service
InitWith(d, p, o) ==
  /\ defs = d
  /\ fn = d
  /\ provider = p
  /\ options = o
  /\ resources = InitialResources(artifactDirectoryNameOf(1))
  /\ outputs = EmptyObject
  /\ statements = InitialStatements
  /\ memo = {}
  /\ pc = [f \in Fns |-> "idle"]
  /\ frame = [f \in Fns |-> EmptyFrame]
  /\ err = [f \in Fns |-> NoError]
  /\ phase = "download"
  /\ idx = 1
  /\ hookResult = Pending
  /\ actor = 0
  /\ round = 1
  /\ prevDigest = [f \in Fns |-> <<>>]
  /\ changed = [fn |-> 0, what |-> "none", old |-> PlainFunction(0)]

Finished(f) == pc[f] \in {"done", "failed"}

Started(f) == pc[f] # "idle"

Ctx(f) == [res |-> resources, out |-> outputs, stmts |-> statements, memo |-> memo,
           fo |-> fn[f], fr |-> frame[f], err |-> err[f], pc |-> pc[f]]

\* mutant: Promise.allSettled, which fulfils whatever the promises did
promiseAllSettled(pcs, errs, old, f) ==
  IF old.state # "pending" THEN old
  ELSE IF \A g \in Fns : pcs[g] \in {"done", "failed"}
       THEN [state |-> "fulfilled", code |-> "none", name |-> 0]
  ELSE old

\* Promise.all over the compileFunction promises: rejected with the first
\* rejection, fulfilled when every promise is
promiseAll(pcs, errs, old, f) ==
  IF old.state # "pending" THEN old
  ELSE IF f \in Fns /\ pcs[f] = "failed"
       THEN [state |-> "rejected", code |-> errs[f].code, name |-> errs[f].name]
  ELSE IF \E g \in Fns : pcs[g] = "failed"
       THEN LET g == CHOOSE h \in Fns : pcs[h] = "failed" /\ \A k \in Fns : pcs[k] = "failed" => h <= k
            IN  [state |-> "rejected", code |-> errs[g].code, name |-> errs[g].name]
  ELSE IF \A g \in Fns : pcs[g] = "done" THEN [state |-> "fulfilled", code |-> "none", name |-> 0]
  ELSE old

\* one uninterrupted run of compileFunction(f) ends in context c
Commit(f, c) ==
  /\ resources' = c.res
  /\ outputs' = c.out
  /\ statements' = c.stmts
  /\ memo' = c.memo
  /\ fn' = [fn EXCEPT ![f] = c.fo]
  /\ frame' = [frame EXCEPT ![f] = c.fr]
  /\ err' = [err EXCEPT ![f] = c.err]
  /\ pc' = [pc EXCEPT ![f] = c.pc]
  /\ actor' = f
  /\ UNCHANGED <<defs, provider, options, round, prevDigest, changed>>

\* downloadPackageArtifacts: one pass of its loop, downloadPackageArtifact(idx).
\* The hook chains compileFunctions with .then, so a rejection ends the hook.
DownloadPackageArtifact ==
  /\ phase = "download"
  /\ idx \in Fns
  /\ \E outcome \in {"close", "error"} :
       LET fo == fn[idx]
           downloads == ~fo.image /\ fo.artifact.remote
           last == idx = NumFns
       IN  /\ ~downloads => outcome = "close"
           /\ fn' = IF downloads /\ outcome = "close"
                    THEN [fn EXCEPT ![idx].artifact.remote = FALSE] ELSE fn
           /\ phase' = IF outcome = "error" THEN "end" ELSE IF last THEN "map" ELSE "download"
           /\ idx' = IF outcome = "error" THEN idx ELSE IF last THEN 1 ELSE idx + 1
           /\ hookResult' = IF outcome = "error"
                            THEN [state |-> "rejected", code |-> DownloadError, name |-> 0]
                            ELSE hookResult
  /\ UNCHANGED <<defs, provider, options, resources, outputs, statements, memo, pc, frame,
                 err, actor, round, prevDigest, changed>>

\* mutant: compileFunctions is not chained behind downloadPackageArtifacts
compileFunctionsStartAtOnce == phase \in {"download", "map"}

\* the hook's order: compileFunctions runs when downloadPackageArtifacts has fulfilled
compileFunctionsMayStart == phase = "map"

\* compileFunctions: allFunctions.map calls compileFunction(idx), which runs to
\* its first await (or to its end); Promise.all takes the promises after the
\* last call
CallCompileFunction ==
  /\ compileFunctionsMayStart
  /\ idx \in Fns
  /\ pc[idx] = "idle"
  /\ Commit(idx, compileFunctionStart(idx, Ctx(idx)))
  /\ idx' = idx + 1
  /\ phase' = IF idx = NumFns THEN "settle" ELSE phase
  /\ hookResult' = IF idx = NumFns THEN promiseAll(pc', err', hookResult, 0) ELSE hookResult

\* a continuation may run once the synchronous map is over
mayResume(f, at) == phase = "settle" /\ pc[f] = at

Resume(f, c) ==
  /\ Commit(f, c)
  /\ hookResult' = promiseAll(pc', err', hookResult, f)
  /\ UNCHANGED <<phase, idx>>

ResumeImage == \E f \in Fns :
  mayResume(f, "resolveImageUriAndSha") /\ Resume(f, resumeImage(f, Ctx(f)))

ResumeGetHashForFilePath == \E f \in Fns :
  mayResume(f, "getHashForFilePath") /\ Resume(f, resumeGetHashForFilePath(f, Ctx(f)))

ResumeAddFileToHash == \E f \in Fns :
  mayResume(f, "addFileToHash") /\ Resume(f, resumeAddFileToHash(f, Ctx(f)))

ResumeAddLayerToHash == \E f \in Fns :
  mayResume(f, "addLayerToHash") /\ Resume(f, resumeAddLayerToHash(f, Ctx(f)))

Next ==
  \/ DownloadPackageArtifact
  \/ CallCompileFunction
  \/ ResumeImage
  \/ ResumeGetHashForFilePath
  \/ ResumeAddFileToHash
  \/ ResumeAddLayerToHash

----------------------------------------------------------------------------
(* The services compiled *)

\* every combination of handler, image, the function-level versioning flag,
\* provisioned concurrency and SnapStart
VersioningDefs(f) ==
  {[PlainFunction(f) EXCEPT !.handler = h, !.image = i, !.versionFunction = v,
                            !.provisionedConcurrency = p, !.snapStart = s] :
     h \in BOOLEAN, i \in BOOLEAN, v \in {"unset", "true", "false"},
     p \in 0 .. 1, s \in BOOLEAN}

\* a handler function with two layers of this template and an artifact on S3
LayeredFunction(f) ==
  [PlainFunction(f) EXCEPT !.layers = <<2, 1>>, !.versionFunction = "true",
                           !.artifact = [remote |-> TRUE, content |-> 1]]

\* an image function with a public url
ImageFunction(f) ==
  [PlainFunction(f) EXCEPT !.handler = FALSE, !.image = TRUE, !.layers = <<1>>,
                           !.url = [NoUrl EXCEPT !.enabled = TRUE]]

\* a function with a filesystem mount and no vpc
MountFunction(f) ==
  [PlainFunction(f) EXCEPT !.fileSystemConfig = "arn:aws:elasticfilesystem:ap",
                           !.tracing = "Active"]

\* a function whose onSuccess target cannot be classified
DestinationFunction(f) ==
  [PlainFunction(f) EXCEPT
     !.versionFunction = "false",
     !.destinations = [onSuccess |-> [shape |-> "string", kind |-> "other",
                                      arn |-> "arn:aws:s3:::bucket", ref |-> 0],
                       onFailure |-> NoTarget]]

Companion(f, k) ==
  IF k = 1 THEN LayeredFunction(f)
  ELSE IF k = 2 THEN ImageFunction(f)
  ELSE IF k = 3 THEN MountFunction(f)
  ELSE DestinationFunction(f)

CompanionKinds == {1, 2, 3, 4}

\* the service in which function focus is declared as v and every other
\* function g as the companion comp[g]
Service(focus, v, comp) ==
  [g \in Fns |-> IF g = focus THEN v ELSE Companion(g, comp[g])]

Providers ==
  {[PlainProvider EXCEPT !.versionFunctions = constructorVersionFunctions(v)] :
     v \in {"unset", "false"}}

Init ==
  \E focus \in Fns, p \in Providers :
    \E v \in VersioningDefs(focus), comp \in [Fns \ {focus} -> CompanionKinds] :
      InitWith(Service(focus, v, comp), p, [enforceHashUpdate |-> FALSE])

Spec == Init /\ [][Next]_vars

----------------------------------------------------------------------------
(* Two deployments of a service: the hook runs for the declared service,    *)
(* then a new instance is constructed and runs for the service declared     *)
(* again, the same or with one setting of one function changed, into the    *)
(* template as it is before the hook, in a new deployment directory         *)

\* the values a redeployed function may declare for memorySize (0: not declared)
MemorySizes == {0, 512, DefaultMemory}

\* the definitions that differ from d in the one setting what
Redeclared(d, what) ==
  IF what = "memorySize"
  THEN {[d EXCEPT !.memorySize = m] : m \in MemorySizes \ {d.memorySize}}
  ELSE IF what = "artifact"
  THEN {IF d.image THEN [d EXCEPT !.imageSha = d.imageSha + 1]
        ELSE [d EXCEPT !.artifact.content = d.artifact.content + 1]}
  ELSE IF what = "reservedConcurrency"
  THEN {[d EXCEPT !.reservedConcurrency = r] : r \in {0, 5} \ {d.reservedConcurrency}}
  ELSE IF what = "tags"
  THEN {[d EXCEPT !.tags = d.tags \cup {"stage"}]}
  ELSE {d}

Redeploy ==
  /\ round = 1
  /\ phase = "settle"
  /\ \A f \in Fns : Finished(f)
  /\ \E g \in Fns, what \in {"none", "memorySize", "artifact", "reservedConcurrency", "tags"} :
       \E d \in Redeclared(defs[g], what) :
         /\ defs' = [defs EXCEPT ![g] = d]
         /\ fn' = defs'
         /\ changed' = [fn |-> g, what |-> what, old |-> defs[g]]
  /\ prevDigest' = [f \in Fns |-> fn[f].versionLogicalId.digest]
  /\ round' = 2
  /\ resources' = InitialResources(artifactDirectoryNameOf(2))
  /\ outputs' = EmptyObject
  /\ statements' = InitialStatements
  /\ memo' = {}
  /\ pc' = [f \in Fns |-> "idle"]
  /\ frame' = [f \in Fns |-> EmptyFrame]
  /\ err' = [f \in Fns |-> NoError]
  /\ phase' = "download"
  /\ idx' = 1
  /\ hookResult' = Pending
  /\ actor' = 0
  /\ UNCHANGED <<provider, options>>

\* what a redeployed function is declared as: a handler function with or
\* without layers, or an image function, with or without a declared memory
RedeployDefs(f) ==
  {[d EXCEPT !.memorySize = m] :
     d \in {PlainFunction(f), LayeredFunction(f), ImageFunction(f)},
     m \in {0, 512}}

\* the hashing generations: lambdaHashingVersion not declared, or the legacy one
HashingProviders ==
  {[PlainProvider EXCEPT !.lambdaHashingVersion = h] : h \in {0, HashingVersionLegacy}}

InitRedeploy ==
  \E p \in HashingProviders, e \in BOOLEAN :
    \* enforce-hash-update overrides the legacy generation: taken with the current one
    /\ e => p.lambdaHashingVersion = 0
    /\ \E v \in RedeployDefs(1), comp \in [Fns \ {1} -> {1, 2}] :
      InitWith(Service(1, v, comp), p, [enforceHashUpdate |-> e])

NextRedeploy ==
  \/ Next
  \/ Redeploy

SpecRedeploy == InitRedeploy /\ [][NextRedeploy]_vars

----------------------------------------------------------------------------
(* A service whose first function has a url with cors declared: each of     *)
(* allowedOrigins, allowedHeaders and allowedMethods is left out, null or a *)
(* list, with or without repeated and default values                        *)

CorsValues == {"*", "https://x"}

CorsFields ==
  {AbsentField, [kind |-> "null", list |-> <<>>]}
    \cup {[kind |-> "list", list |-> l] : l \in SeqsUpTo(CorsValues, MaxList)}

CorsFunction(f, origins, headers, methods) ==
  [PlainFunction(f) EXCEPT
     !.url = [NoUrl EXCEPT !.enabled = TRUE, !.cors = TRUE,
                           !.allowedOrigins = origins,
                           !.allowedHeaders = headers,
                           !.allowedMethods = methods]]

InitCors ==
  \E origins \in CorsFields, headers \in CorsFields, methods \in CorsFields :
    InitWith(Service(1, CorsFunction(1, origins, headers, methods), [g \in Fns \ {1} |-> 2]),
             PlainProvider, [enforceHashUpdate |-> FALSE])

SpecCors == InitCors /\ [][Next]_vars

----------------------------------------------------------------------------
(* Services whose functions ask for statements in the policy document of    *)
(* the default role: dead-letter target, KMS key, tracing, filesystem       *)
(* mount, destinations; with the default role or a role of their own        *)

Queue == "arn:aws:sqs:queue"

Topic == "arn:aws:sns:topic"

Key == "arn:aws:kms:key"

AccessPoint == "arn:aws:elasticfilesystem:ap"

ExternalRole == "arn:aws:iam::role/external"

\* a destination declared as a string: an arn, or the name of a function
StringTarget(kind, arn) == [shape |-> "string", kind |-> kind, arn |-> arn, ref |-> 0]

\* a destination declared as {type, arn}; ref tells the objects apart
ObjectTarget(type, arn, ref) == [shape |-> "object", kind |-> type, arn |-> arn, ref |-> ref]

Destinations(onSuccess, onFailure) == [onSuccess |-> onSuccess, onFailure |-> onFailure]

\* functions compiled without a version, in one run
Unversioned(f) == [PlainFunction(f) EXCEPT !.versionFunction = "false"]

PermissionFunction(f, k) ==
  IF k = 1 THEN [Unversioned(f) EXCEPT !.onError = Topic]
  ELSE IF k = 2 THEN [Unversioned(f) EXCEPT !.kmsKeyArn = Key, !.tracing = "Active"]
  ELSE IF k = 3 THEN [Unversioned(f) EXCEPT !.fileSystemConfig = AccessPoint, !.vpc = "full"]
  ELSE IF k = 4
  THEN [Unversioned(f) EXCEPT !.role = ExternalRole, !.onError = Topic, !.kmsKeyArn = Key,
                              !.tracing = "Active", !.fileSystemConfig = AccessPoint,
                              !.vpc = "full",
                              !.destinations = Destinations(StringTarget(":sqs:", Queue), NoTarget)]
  ELSE IF k = 5
  THEN [PlainFunction(f) EXCEPT
          !.destinations = Destinations(StringTarget(":sqs:", Queue), NoTarget)]
  ELSE IF k = 6
  THEN [Unversioned(f) EXCEPT
          !.destinations = Destinations(StringTarget(":sqs:", Queue), StringTarget(":sqs:", Queue))]
  ELSE IF k = 7
  THEN [PlainFunction(f) EXCEPT
          !.destinations = Destinations(ObjectTarget("sqs", Queue, 2 * f - 1),
                                        ObjectTarget("sqs", Queue, 2 * f))]
  ELSE IF k = 8
  THEN [Unversioned(f) EXCEPT
          !.destinations = Destinations(StringTarget(":sns:", Topic),
                                        ObjectTarget("kinesis", "arn:aws:kinesis:stream", 2 * f))]
  ELSE IF k = 9
  THEN [DestinationFunction(f) EXCEPT !.role = ExternalRole]
  ELSE IF k = 10
  THEN [ImageFunction(f) EXCEPT !.onError = Topic, !.tracing = "Active"]
  ELSE DestinationFunction(f)

PermissionKinds == 1 .. 11

InitPermissions ==
  \E kind \in [Fns -> PermissionKinds] :
    InitWith([f \in Fns |-> PermissionFunction(f, kind[f])],
             PlainProvider, [enforceHashUpdate |-> FALSE])

SpecPermissions == InitPermissions /\ [][Next]_vars

----------------------------------------------------------------------------
(* Services whose first function declares a filesystem mount, or none, and  *)
(* a vpc: not declared, null (or false), complete, or only one of security  *)
(* group ids and subnet ids; the provider declares a vpc likewise           *)

VpcSettings == {"unset", "full", "securityGroupIdsOnly", "subnetIdsOnly"}

MountDefs(f) ==
  {[PlainFunction(f) EXCEPT !.fileSystemConfig = m, !.vpc = v, !.tracing = t] :
     m \in {"none", AccessPoint},
     v \in VpcSettings \cup {"null"},
     t \in {"none", "Active"}}

VpcProviders == {[PlainProvider EXCEPT !.vpc = v] : v \in VpcSettings}

InitMount ==
  \E p \in VpcProviders :
    \E v \in MountDefs(1), comp \in [Fns \ {1} -> {1, 2}] :
      InitWith(Service(1, v, comp), p, [enforceHashUpdate |-> FALSE])

SpecMount == InitMount /\ [][Next]_vars

----------------------------------------------------------------------------
(* Services whose first function declares a url, with either authorizer,    *)
(* for every combination of versioning, provisioned concurrency, SnapStart  *)

UrlDefs(f) ==
  {[PlainFunction(f) EXCEPT !.url = [NoUrl EXCEPT !.enabled = TRUE, !.authorizer = a],
                            !.versionFunction = v,
                            !.provisionedConcurrency = p,
                            !.snapStart = s] :
     a \in {"none", "aws_iam"}, v \in {"unset", "false"}, p \in 0 .. 1, s \in BOOLEAN}

InitUrl ==
  \E v \in UrlDefs(1), comp \in [Fns \ {1} -> {1, 2}] :
    InitWith(Service(1, v, comp), PlainProvider, [enforceHashUpdate |-> FALSE])

SpecUrl == InitUrl /\ [][Next]_vars

----------------------------------------------------------------------------
(* What the properties speak of *)

\* the kinds of resource compileFunction inserts
CompiledKinds ==
  {"LambdaFunction", "LambdaVersion", "ProvConcLambdaAlias", "SnapStartLambdaAlias",
   "LambdaFunctionUrl", "LambdaPermissionFnUrl", "LambdaEvConf"}

ResourcesOf(f) == {id \in DOMAIN resources : id.fn = f /\ id.kind \in CompiledKinds}

OutputsOf(f) == {id \in DOMAIN outputs : id.fn = f}

VersionsOf(f) == {id \in ResourcesOf(f) : id.kind = "LambdaVersion"}

AliasesOf(f) == {id \in ResourcesOf(f) : id.kind \in {"ProvConcLambdaAlias", "SnapStartLambdaAlias"}}

ComputeResourceCompiled(f) == getLambdaLogicalId(f) \in DOMAIN resources

Graph == <<resources, outputs, statements>>

\* the function is declared with exactly one of handler and image
DeclaredValid(f) == defs[f].handler # defs[f].image

\* versioning as declared: the function-level flag when set, else the provider's
VersioningEnabled(f) ==
  \/ defs[f].versionFunction = "true"
  \/ defs[f].versionFunction = "unset" /\ provider.versionFunctions

----------------------------------------------------------------------------
(* C1 *)

\* C1 as claimed: the functions are compiled one at a time; once a second
\* function has made its first step, the first one makes no further step, so
\* no two compilations are under way (started and not finished) together.
C1_OneAtATime ==
  \A f \in Fns, g \in Fns :
    f # g /\ Started(f) /\ Started(g) => Finished(f) \/ Finished(g)

\* C1 as amended: the compilations are started in declaration order in one
\* synchronous pass and interleave only at their awaits.  When a function
\* has made its first step, every function declared before it has made its
\* first step: it has failed its checks, or stands at an await, or is done,
\* and a handler function that passed its checks has its compute resource in
\* the graph.  While a function is still unstarted, no continuation has run.
C1_StartedInDeclarationOrder ==
  /\ \A f \in Fns, g \in Fns :
       f < g /\ Started(g) =>
         /\ Started(f)
         /\ ~DeclaredValid(f) => pc[f] = "failed"
         /\ defs[f].handler /\ ~defs[f].image =>
              pc[f] = "failed" \/ ComputeResourceCompiled(f)
  /\ (\E g \in Fns : ~Started(g)) =>
       \A f \in Fns :
         pc[f] \in {"idle", "failed", "done", "resolveImageUriAndSha", "getHashForFilePath"}

\* a later function has started while an earlier one, its compute resource
\* inserted, still awaits the hash of its artifact
C1_Witness ==
  \E f \in Fns, g \in Fns :
    /\ f < g
    /\ pc[f] = "getHashForFilePath"
    /\ ComputeResourceCompiled(f)
    /\ Started(g)
    /\ ~Finished(g)

----------------------------------------------------------------------------
(* C2 *)

\* C2 as claimed: once any compileFunction has raised a fatal error, nothing
\* is added to the graph any more.
C2_HaltsOnFirstError ==
  [][(\E f \in Fns : err[f].code \in FatalErrors) => Graph' = Graph]_vars

\* C2 as amended: once a compileFunction has raised a fatal error, that
\* function adds nothing more to the graph (every later change of the graph
\* is a step of a function that has raised no error), and the hook's promise
\* is rejected with a raised error as soon as the synchronous pass is over;
\* the compilations of the other functions go on.
C2_FailedFunctionHalts ==
  /\ [][Graph' # Graph => actor' \in Fns /\ err[actor'] = NoError]_vars
  /\ []((phase = "settle" /\ \E f \in Fns : err[f] # NoError) =>
          /\ hookResult.state = "rejected"
          /\ \E f \in Fns : err[f].code = hookResult.code)

\* a function has raised a fatal error, the hook is rejected, and another
\* function has since run to its end
C2_Witness ==
  \E f \in Fns, g \in Fns :
    /\ f # g
    /\ err[f].code \in FatalErrors
    /\ hookResult.state = "rejected"
    /\ actor = g
    /\ pc[g] = "done"
    /\ ResourcesOf(g) # {}

----------------------------------------------------------------------------
(* C3 *)

\* C3: when a compileFunction has started, the artifact of every function
\* has been retrieved (no function that downloads still points to S3); when
\* a retrieval has failed, no compileFunction has started and the graph is
\* as it was.
C3_DownloadsBeforeCompilation ==
  /\ (\E f \in Fns : Started(f)) =>
       \A g \in Fns : fn[g].image \/ ~fn[g].artifact.remote
  /\ hookResult.code = DownloadError =>
       /\ \A f \in Fns : ~Started(f) /\ ResourcesOf(f) = {}
       /\ phase = "end"

\* a function has started after an artifact was downloaded from S3
C3_Witness ==
  \E f \in Fns, g \in Fns :
    /\ Started(f)
    /\ defs[g].artifact.remote
    /\ ~defs[g].image
    /\ ~fn[g].artifact.remote

----------------------------------------------------------------------------
(* C4 *)

\* C4: a function declared with both handler and image fails with the
\* both-defined error, one declared with neither fails with the
\* neither-defined error, a different code; the step that raises the error
\* leaves the graph as it was, and the function never owns a resource or an
\* output.
C4_HandlerImageValidation ==
  /\ [](\A f \in Fns :
          Started(f) /\ ~DeclaredValid(f) =>
            /\ pc[f] = "failed"
            /\ err[f].name = f
            /\ err[f].code = IF defs[f].handler THEN BothError ELSE NeitherError
            /\ ResourcesOf(f) = {}
            /\ OutputsOf(f) = {})
  /\ [](BothError # NeitherError)
  /\ [][\A f \in Fns :
          pc[f] = "idle" /\ pc'[f] # "idle" /\ ~DeclaredValid(f) => Graph' = Graph]_vars

\* a function with both handler and image has failed while another function
\* was compiled
C4_Witness ==
  \E f \in Fns, g \in Fns :
    /\ defs[f].handler /\ defs[f].image
    /\ err[f].code = BothError
    /\ ComputeResourceCompiled(g)

----------------------------------------------------------------------------
(* C5 *)

\* C5: when the service is deployed again as it was declared (same
\* definitions, provider, hashing generation and options, same artifact and
\* layer contents), every version resource of the second deployment has the
\* digest, hence the logical id, its function's version had in the first,
\* whatever the order in which the awaits of the two deployments resumed.
C5_SameDigestOnRedeploy ==
  round = 2 /\ changed.what = "none" =>
    \A f \in Fns :
      /\ \A id \in VersionsOf(f) :
           /\ id.digest = prevDigest[f]
           /\ id = getLambdaVersionLogicalId(f, prevDigest[f])
      /\ pc[f] = "done" => fn[f].versionLogicalId.digest = prevDigest[f]

\* the second deployment of an unchanged service has given a function with
\* layers the version id of the first deployment, another function also
\* having been compiled
C5_Witness ==
  \E f \in Fns, g \in Fns :
    /\ round = 2
    /\ changed.what = "none"
    /\ f # g
    /\ defs[f].layers # <<>>
    /\ pc[f] = "done"
    /\ prevDigest[f] # <<>>
    /\ getLambdaVersionLogicalId(f, prevDigest[f]) \in DOMAIN resources
    /\ ComputeResourceCompiled(g)

----------------------------------------------------------------------------
(* C6 *)

\* C6: when the service is deployed again with one setting of one function
\* changed, the version digest of that function differs from the first
\* deployment's when the artifact's content (the image's digest for an image
\* function) changed, differs when the declared memory size changed exactly
\* if the compiled MemorySize differs, and is the same when only the
\* reserved concurrency or only the tags changed.  The digest is the
\* sequence of the chunks written to the hash, so equal digests are equal
\* inputs.
C6_DigestSensitivity ==
  round = 2 /\ changed.what # "none" =>
    LET f == changed.fn
    IN  \A id \in VersionsOf(f) :
          /\ changed.what = "artifact" => id.digest # prevDigest[f]
          /\ changed.what = "memorySize" =>
               (id.digest # prevDigest[f] <=>
                  resolveMemory(defs[f]) # resolveMemory(changed.old))
          /\ changed.what \in {"reservedConcurrency", "tags"} => id.digest = prevDigest[f]

\* the function whose memory size was changed has a version with a new
\* digest, while a function left as it was has the digest it had
C6_Witness ==
  \E f \in Fns, g \in Fns :
    /\ round = 2
    /\ changed.what = "memorySize"
    /\ changed.fn = f
    /\ g # f
    /\ \E id \in VersionsOf(f) : id.digest # prevDigest[f] /\ prevDigest[f] # <<>>
    /\ \E id \in VersionsOf(g) : id.digest = prevDigest[g]

----------------------------------------------------------------------------
(* C7 *)

----------------------------------------------------------------------------
(* C8 *)

----------------------------------------------------------------------------
(* C9 *)

----------------------------------------------------------------------------
(* C10 *)

\* the values of a list, as a set
Values(list) == {list[i] : i \in DOMAIN list}

\* C10: in the url resource of a function that declares cors, each of
\* AllowOrigins, AllowHeaders and AllowMethods is the fixed default when the
\* field is not declared, has no value when the field is null, and when the
\* field is a list holds the values of that list, each once, in the order
\* of their first occurrence: never anything of the default that the list
\* does not name.  A function that declares a url and is compiled to its end
\* has the url resource.
C10_CorsOverride ==
  \A f \in Fns :
    defs[f].url.enabled /\ defs[f].url.cors =>
      /\ pc[f] = "done" => getLambdaFunctionUrlLogicalId(f) \in DOMAIN resources
      /\ getLambdaFunctionUrlLogicalId(f) \in DOMAIN resources =>
           LET Cors == resources[getLambdaFunctionUrlLogicalId(f)].Properties.Cors
               law(field, key, default) ==
                 /\ field.kind = "absent" => Has(Cors, key) /\ Cors[key] = default
                 /\ field.kind = "null" => ~Has(Cors, key)
                 /\ field.kind = "list" =>
                      /\ Has(Cors, key)
                      /\ Values(Cors[key]) = Values(field.list)
                      /\ Len(Cors[key]) = Cardinality(Values(field.list))
                      /\ \A i \in DOMAIN Cors[key], j \in DOMAIN Cors[key] :
                           i < j =>
                             \E k \in DOMAIN field.list :
                               /\ field.list[k] = Cors[key][i]
                               /\ \A m \in 1 .. k : field.list[m] # Cors[key][j]
           IN  /\ law(defs[f].url.allowedOrigins, "AllowOrigins", <<"*">>)
               /\ law(defs[f].url.allowedHeaders, "AllowHeaders",
                      <<"Content-Type", "X-Amz-Date", "Authorization", "X-Api-Key",
                        "X-Amz-Security-Token", "X-Amzn-Trace-Id">>)
               /\ law(defs[f].url.allowedMethods, "AllowMethods", <<"*">>)

\* a url resource compiled from origins that repeat a value the default does
\* not hold, null headers and no declared methods
C10_Witness ==
  \E f \in Fns :
    /\ defs[f].url.cors
    /\ defs[f].url.allowedOrigins = [kind |-> "list", list |-> <<"https://x", "https://x">>]
    /\ defs[f].url.allowedHeaders.kind = "null"
    /\ defs[f].url.allowedMethods.kind = "absent"
    /\ getLambdaFunctionUrlLogicalId(f) \in DOMAIN resources
    /\ resources[getLambdaFunctionUrlLogicalId(f)].Properties.Cors =
         [AllowOrigins |-> <<"https://x">>, AllowMethods |-> <<"*">>]

----------------------------------------------------------------------------
(* C11 *)

\* how many times statement e stands in the document s
Count(s, e) == Cardinality({i \in DOMAIN s : s[i] = e})

\* the statement ensureTargetExecutionPermission pushes for the queue
QueueStatement ==
  [Effect |-> "Allow", Action |-> [scalar |-> "sqs:SendMessage"], Resource |-> [arn |-> Queue]]

UsesDefaultRole(f) == defs[f].role = "none"

\* the targets f declares, onSuccess and onFailure
TargetsOf(f) == {defs[f].destinations.onSuccess, defs[f].destinations.onFailure} \ {NoTarget}

IsQueueTarget(t) == t.arn = Queue /\ t.kind \in {"sqs", ":sqs:"}

\* C11 as claimed: when two functions with the default role declare the same
\* on-success target and both are compiled, the document holds two
\* statements for that target, one per function.
C11_OneStatementPerFunction ==
  \A f \in Fns, g \in Fns :
    /\ f < g
    /\ UsesDefaultRole(f) /\ UsesDefaultRole(g)
    /\ pc[f] = "done" /\ pc[g] = "done"
    /\ IsQueueTarget(defs[f].destinations.onSuccess)
    /\ defs[g].destinations.onSuccess = defs[f].destinations.onSuccess
    => Count(statements, QueueStatement) >= 2

\* C11 as amended: the statement for a target names no function.  A target
\* declared as a string gets one statement however many functions declare
\* it, and targets declared as objects get at most one statement for each
\* object; once a function with the default role that declares the target is
\* compiled, the document holds the statement.
C11_OneStatementPerTarget ==
  LET declared == UNION {TargetsOf(f) : f \in {g \in Fns : UsesDefaultRole(g)}}
      strings == {t \in declared : t.shape = "string" /\ IsQueueTarget(t)}
      objects == {t \in declared : t.shape = "object" /\ IsQueueTarget(t)}
  IN  /\ Count(statements, QueueStatement)
           <= (IF strings # {} THEN 1 ELSE 0) + Cardinality({t.ref : t \in objects})
      /\ (\E f \in Fns :
            /\ UsesDefaultRole(f)
            /\ pc[f] = "done"
            /\ \E t \in TargetsOf(f) : IsQueueTarget(t))
           => Count(statements, QueueStatement) >= 1

\* two functions with the default role and the same string target are both
\* compiled, and the document holds one statement for the target
C11_Witness ==
  \E f \in Fns, g \in Fns :
    /\ f < g
    /\ UsesDefaultRole(f) /\ UsesDefaultRole(g)
    /\ pc[f] = "done" /\ pc[g] = "done"
    /\ defs[f].destinations.onSuccess = StringTarget(":sqs:", Queue)
    /\ defs[g].destinations.onSuccess = StringTarget(":sqs:", Queue)
    /\ Count(statements, QueueStatement) = 1

----------------------------------------------------------------------------
(* C12 *)

\* C12: a function with the default role that declares the same target
\* twice, as onSuccess and as onFailure (equal strings, or objects of equal
\* type and arn), no other function declaring it, leaves exactly one
\* statement for the target in the document once it is compiled.
C12_OneStatementPerPair ==
  \A f \in Fns :
    LET onSuccess == defs[f].destinations.onSuccess
        onFailure == defs[f].destinations.onFailure
    IN  /\ UsesDefaultRole(f)
        /\ pc[f] = "done"
        /\ IsQueueTarget(onSuccess)
        /\ onFailure.shape = onSuccess.shape
        /\ onFailure.kind = onSuccess.kind
        /\ onFailure.arn = onSuccess.arn
        /\ \A g \in Fns \ {f} : \A t \in TargetsOf(g) : ~IsQueueTarget(t)
        => Count(statements, QueueStatement) = 1

----------------------------------------------------------------------------
(* C13 *)

\* C13: the document, which starts without duplicates, never holds two
\* equal statements, whichever feature appended them.
C13_NoDuplicateStatements ==
  \A i \in DOMAIN statements, j \in DOMAIN statements :
    i # j => statements[i] # statements[j]

----------------------------------------------------------------------------
(* C14 *)

\* C14: a step of the compilation of a function that has a role of its own
\* leaves the document of the default role as it was.
C14_ExternalRoleAppendsNothing ==
  [][\A f \in Fns :
       ~UsesDefaultRole(f) /\ actor' = f /\ <<pc[f], frame[f]>> # <<pc'[f], frame'[f]>>
         => statements' = statements]_vars

----------------------------------------------------------------------------
(* C15 *)

\* a target that is neither an object of type function, sqs, sns or eventBus
\* nor a function name nor an arn of one of the four services
IsUnsupportedTarget(t) ==
  \/ t.shape = "object" /\ t.kind \notin {"function", "sqs", "sns", "eventBus"}
  \/ t.shape = "string" /\ t.kind \notin {"name", ":function:", ":sqs:", ":sns:", ":event-bus/"}

DeclaresUnsupportedTarget(f) == \E t \in TargetsOf(f) : IsUnsupportedTarget(t)

ConflictingSettings(f) == defs[f].provisionedConcurrency # 0 /\ defs[f].snapStart

\* C15 as claimed: every function that declares a destination of
\* unsupported shape ends with the unsupported-destination error.
C15_UnsupportedAlwaysFails ==
  \A f \in Fns :
    DeclaresUnsupportedTarget(f) /\ Finished(f) =>
      err[f].code = UnsupportedTargetError

\* C15 as amended: no statement is ever appended for an unsupported target.
\* A function with the default role that declares one, once it has passed
\* the earlier checks and come to its end, has failed with the
\* unsupported-destination error, raised for the target and not naming the
\* function, and has no event-invoke resource.  A function with a role of
\* its own is not checked: it is compiled to its end, with an event-invoke
\* resource for the unsupported target.
C15_UnsupportedFailsUnderDefaultRole ==
  \A f \in Fns :
    DeclaresUnsupportedTarget(f) =>
      /\ \A t \in TargetsOf(f) :
           IsUnsupportedTarget(t) =>
             \A i \in DOMAIN statements : statements[i].Resource # [arn |-> t.arn]
      /\ Finished(f) /\ ComputeResourceCompiled(f) /\ ~ConflictingSettings(f) =>
           IF UsesDefaultRole(f)
           THEN /\ pc[f] = "failed"
                /\ err[f] = [code |-> UnsupportedTargetError, name |-> 0]
                /\ getLambdaEventConfigLogicalId(f) \notin DOMAIN resources
           ELSE /\ pc[f] = "done"
                /\ getLambdaEventConfigLogicalId(f) \in DOMAIN resources

\* a function with the default role has failed on its unsupported target
\* after the statement for its supported on-success target was pushed, and
\* a function with a role of its own and an unsupported target is compiled
C15_Witness ==
  \E f \in Fns, g \in Fns :
    /\ UsesDefaultRole(f)
    /\ IsUnsupportedTarget(defs[f].destinations.onFailure)
    /\ ~IsUnsupportedTarget(defs[f].destinations.onSuccess)
    /\ err[f].code = UnsupportedTargetError
    /\ \E i \in DOMAIN statements : statements[i].Resource = [arn |-> Topic]
    /\ ~UsesDefaultRole(g)
    /\ DeclaresUnsupportedTarget(g)
    /\ pc[g] = "done"

----------------------------------------------------------------------------
(* C16 *)

\* the statement pushed for the filesystem access point
AccessPointStatement ==
  [Effect |-> "Allow",
   Action |-> [list |-> <<"elasticfilesystem:ClientMount", "elasticfilesystem:ClientWrite">>],
   Resource |-> [list |-> <<AccessPoint>>]]

\* security group ids and subnet ids are both declared, each by the function
\* or by the provider, and the function has not unset its vpc
VpcResolved(f) ==
  /\ defs[f].vpc # "null"
  /\ \/ defs[f].vpc \in {"full", "securityGroupIdsOnly"}
     \/ provider.vpc \in {"full", "securityGroupIdsOnly"}
  /\ \/ defs[f].vpc \in {"full", "subnetIdsOnly"}
     \/ provider.vpc \in {"full", "subnetIdsOnly"}

\* C16: a function with a filesystem mount whose vpc is resolved gets its
\* compute resource, with VpcConfig and FileSystemConfigs, and the
\* filesystem statement; one whose vpc is not resolved fails with the
\* missing-vpc error, which names it, and neither its compute resource nor
\* the filesystem statement is ever added.
C16_MountNeedsVpc ==
  \A f \in Fns :
    defs[f].fileSystemConfig # "none" /\ DeclaredValid(f) =>
      IF VpcResolved(f)
      THEN /\ err[f].code # MissingVpcError
           /\ Started(f) /\ ~defs[f].image =>
                /\ ComputeResourceCompiled(f)
                /\ Has(resources[getLambdaLogicalId(f)].Properties, "VpcConfig")
                /\ Has(resources[getLambdaLogicalId(f)].Properties, "FileSystemConfigs")
                /\ Count(statements, AccessPointStatement) = 1
      ELSE /\ ~ComputeResourceCompiled(f)
           /\ ResourcesOf(f) = {}
           /\ Count(statements, AccessPointStatement) = 0
           /\ Started(f) /\ ~defs[f].image =>
                /\ pc[f] = "failed"
                /\ err[f] = [code |-> MissingVpcError, name |-> f]

\* a function that unsets its vpc under a provider with a complete vpc has
\* failed with the missing-vpc error after its tracing statement was merged,
\* and another function is compiled
C16_Witness ==
  \E f \in Fns, g \in Fns :
    /\ defs[f].fileSystemConfig # "none"
    /\ defs[f].vpc = "null"
    /\ provider.vpc = "full"
    /\ defs[f].tracing = "Active"
    /\ err[f] = [code |-> MissingVpcError, name |-> f]
    /\ Len(statements) > Len(InitialStatements)
    /\ ComputeResourceCompiled(g)

----------------------------------------------------------------------------
(* C17 *)

\* C17: a function that declares a url and is compiled to its end has the
\* url resource, and the public-invoke permission exactly when the
\* authorizer is not aws_iam.  When an alias was created for the function,
\* the DependsOn of both is that alias, which is in the graph whenever they
\* are; when none was, neither has a DependsOn.
C17_UrlDependsOnAlias ==
  \A f \in Fns :
    LET urlId == getLambdaFunctionUrlLogicalId(f)
        permissionId == getLambdaFnUrlPermissionLogicalId(f)
        wired(id) ==
          IF AliasesOf(f) # {}
          THEN /\ Has(resources[id], "DependsOn")
               /\ resources[id].DependsOn \in AliasesOf(f)
               /\ AliasesOf(f) = {resources[id].DependsOn}
          ELSE ~Has(resources[id], "DependsOn")
    IN  defs[f].url.enabled =>
          /\ pc[f] = "done" => urlId \in DOMAIN resources
          /\ permissionId \in DOMAIN resources => urlId \in DOMAIN resources
          /\ urlId \in DOMAIN resources =>
               /\ permissionId \in DOMAIN resources <=> defs[f].url.authorizer # "aws_iam"
               /\ wired(urlId)
               /\ permissionId \in DOMAIN resources => wired(permissionId)
               /\ AliasesOf(f) # {} <=>
                    defs[f].provisionedConcurrency # 0 \/ defs[f].snapStart

\* a function with SnapStart and a public url has its url and permission
\* resources depending on the SnapStart alias, and a function with a url and
\* no alias has a url resource without DependsOn
C17_Witness ==
  \E f \in Fns, g \in Fns :
    /\ defs[f].snapStart
    /\ defs[f].url.enabled
    /\ defs[f].url.authorizer = "none"
    /\ getLambdaFnUrlPermissionLogicalId(f) \in DOMAIN resources
    /\ resources[getLambdaFnUrlPermissionLogicalId(f)].DependsOn =
         getLambdaSnapStartAliasLogicalId(f)
    /\ resources[getLambdaFunctionUrlLogicalId(f)].DependsOn =
         getLambdaSnapStartAliasLogicalId(f)
    /\ getLambdaSnapStartAliasLogicalId(f) \in DOMAIN resources
    /\ defs[g].url.enabled
    /\ AliasesOf(g) = {}
    /\ getLambdaFunctionUrlLogicalId(g) \in DOMAIN resources
    /\ ~Has(resources[getLambdaFunctionUrlLogicalId(g)], "DependsOn")

----------------------------------------------------------------------------
(* C18 *)

DeadLetterStatement ==
  [Effect |-> "Allow", Action |-> [list |-> <<"sns:Publish">>], Resource |-> [list |-> <<Topic>>]]

KeyStatement ==
  [Effect |-> "Allow", Action |-> [list |-> <<"kms:Decrypt">>], Resource |-> [list |-> <<Key>>]]

TracingStatement ==
  [Effect |-> "Allow",
   Action |-> [list |-> <<"xray:PutTraceSegments", "xray:PutTelemetryRecords">>],
   Resource |-> [list |-> <<"*">>]]

\* the statements the compilation of f has asked for so far: those of the
\* settings once the compute resource is inserted, that of the queue once
\* the function is compiled to its end
AddedBy(f) ==
  (IF ComputeResourceCompiled(f)
   THEN (IF defs[f].onError = Topic THEN {DeadLetterStatement} ELSE {})
          \cup (IF defs[f].kmsKeyArn = Key THEN {KeyStatement} ELSE {})
          \cup (IF defs[f].tracing # "none" THEN {TracingStatement} ELSE {})
          \cup (IF defs[f].fileSystemConfig = AccessPoint THEN {AccessPointStatement} ELSE {})
   ELSE {})
  \cup
  (IF pc[f] = "done" /\ UsesDefaultRole(f) /\ \E t \in TargetsOf(f) : IsQueueTarget(t)
   THEN {QueueStatement} ELSE {})

\* C18: no step of any compilation takes a statement out of the document,
\* whether it pushes or replaces the list with a union, and every statement
\* a compilation has asked for is in the document from then on, in every
\* order in which the compilations resume.
C18_NoLostUpdate ==
  /\ [][Values(statements) \subseteq Values(statements')]_vars
  /\ [](\A f \in Fns : AddedBy(f) \subseteq Values(statements))

\* an image function, whose statements are added after its await, and a
\* function with a queue destination, whose statement is added after its
\* own awaits, are both compiled and the document holds the statements of both
C18_Witness ==
  \E f \in Fns, g \in Fns :
    /\ defs[f].image
    /\ defs[f].onError = Topic
    /\ defs[f].tracing # "none"
    /\ pc[f] = "done"
    /\ defs[g].versionFunction = "unset"
    /\ \E t \in TargetsOf(g) : IsQueueTarget(t)
    /\ pc[g] = "done"
    /\ {DeadLetterStatement, TracingStatement, QueueStatement} \subseteq Values(statements)
    /\ Len(statements) >= 4

====
